---- MODULE Spec2Model ----
(***************************************************************************)
(* Model of the perfect-map crate: PerfectMap (src/src/lib.rs) and         *)
(* KeylessPerfectMap (src/src/keyless.rs).                                 *)
(*                                                                         *)
(* The construction routine is modelled statement by statement (assert,    *)
(* hash function build, with_capacity, the zip loop writing into the spare *)
(* capacity, set_len), the lookups and the serde visitors as operators.    *)
(* The ph::fmph::GOFunction primitive is an external crate: it is modelled *)
(* by its interface, as a nondeterministically chosen function from keys   *)
(* to slots that is injective on the distinct keys it was built from.      *)
(***************************************************************************)
EXTENDS Integers, Sequences, FiniteSets, TLC

\* ---------------------------------------------------------------- bounds
MaxN == 3          \* longest key / value sequence handed to a constructor
MaxFields == 3     \* longest field list of a record that did not come from Serialize

KeyUniverse == {"a", "b", "c"}
KeyOrder == <<"a", "b", "c">>
ValueUniverse == {1, 2}

\* ------------------------------------------------------------ Option<T>
None == [some |-> FALSE]
Some(x) == [some |-> TRUE, v |-> x]

SeqsUpTo(S, n) == UNION {[1..m -> S] : m \in 0..n}
KeySet(ks) == {ks[i] : i \in 1..Len(ks)}
Distinct(s) == \A i, j \in 1..Len(s) : i # j => s[i] # s[j]
Min(a, b) == IF a < b THEN a ELSE b

\* ------------------------------------------- ph::fmph::GOFunction (external)
OptSlots(N) == {None} \cup {Some(s) : s \in 0..(N - 1)}

\* GOFunction::from_slice_with_conf(&keys, ..): every function the primitive
\* may return for this key slice.  Keys of the slice get a slot in [0, N),
\* different keys get different slots; a key outside the slice gets a miss or
\* any slot of the range.
Hashers(ks) ==
    LET N == Len(ks) IN
    {[n |-> N, slot |-> g] :
        g \in {f \in [KeyUniverse -> OptSlots(N)] :
                 /\ \A k \in KeySet(ks) : f[k].some
                 /\ \A k1, k2 \in KeySet(ks) : k1 # k2 => f[k1] # f[k2]}}

\* GOFunction::get(key) -> Option<u64>
FunctionGet(h, k) == h.slot[k]

NoFunction == [n |-> 0, built |-> FALSE]

\* GOFunction::write: the byte image of the function: the slot count, then
\* one byte per key of the universe (255 for a miss).
SlotByte(o) == IF o.some THEN o.v ELSE 255
FunctionWrite(h) == <<h.n>> \o [i \in 1..Len(KeyOrder) |-> SlotByte(h.slot[KeyOrder[i]])]

\* GOFunction::read: parse the byte image back, or fail.
ByteSlot(b) == IF b = 255 THEN None ELSE Some(b)
FunctionReadOk(bytes) ==
    /\ Len(bytes) = 1 + Len(KeyOrder)
    /\ \A i \in 2..Len(bytes) : bytes[i] = 255 \/ bytes[i] \in 0..(bytes[1] - 1)
FunctionRead(bytes) ==
    IF FunctionReadOk(bytes)
    THEN Some([n |-> bytes[1],
               slot |-> [k \in KeyUniverse |->
                           ByteSlot(bytes[1 + CHOOSE i \in 1..Len(KeyOrder) : KeyOrder[i] = k])]])
    ELSE None

\* ------------------------------------------------------------ Vec, slices
\* A MaybeUninit<T> cell: what was written to it, or nothing yet.
Uninit == None
Written(x) == Some(x)
Cells(items) == [s \in 1..Len(items) |-> Written(items[s])]

\* Vec::with_capacity(n): n spare slots of MaybeUninit, length 0.
WithCapacity(n) == [allocated |-> TRUE, spare |-> [s \in 1..n |-> Uninit]]
Unallocated == [allocated |-> FALSE, spare |-> <<>>]

\* spare_capacity_mut()[new_idx] is a bounds-checked slice index.
InSpare(buf, new_idx) == new_idx < Len(buf.spare)

\* spare_capacity_mut()[new_idx].write(x)
\* (faulty variant: every write lands in slot 0)
SpareWriteAtZero(buf, new_idx, x) == [buf EXCEPT !.spare[1] = Written(x)]
SpareWrite(buf, new_idx, x) == [buf EXCEPT !.spare[new_idx + 1] = Written(x)]

\* <[T]>::get(idx): the bounds-checked read; acc is the index actually read.
\* (faulty variant: unchecked indexing)
VecGetNoBoundsCheck(vals, i) ==
    [acc |-> Some(i),
     res |-> IF i < Len(vals) THEN Some(vals[i + 1]) ELSE Some(Uninit)]
VecGet(vals, i) ==
    IF i < Len(vals) THEN [acc |-> Some(i), res |-> Some(vals[i + 1])]
                     ELSE [acc |-> None, res |-> None]

\* v.into(): the reflexive conversion (U = V), as in the crate's test.
Into(u) == u

\* -------------------------------------------------------------- the maps
NoMap == [type |-> "none"]
MkMap(type, function, vals, ks) ==
    [type |-> type, function |-> function, values |-> vals, keys |-> ks]

VARIABLES
    pc,              \* position of the running constructor call
    type,            \* "PerfectMap" or "KeylessPerfectMap"
    entry,           \* the public constructor that was called
    keys, values,    \* the arguments of new / new_preserve_keys
    hasher,          \* the local `hasher`
    reordered_vals,  \* the local `reordered_vals`
    reordered_keys,  \* the local `reordered_keys` (new_preserve_keys)
    idx,             \* pairs of the zip consumed so far
    writeLog,        \* slot indices written by the pass, in order
    map,             \* the map the constructor returned
    wire,            \* a serialized record
    decoded,         \* the outcome of deserializing `wire`
    result           \* what the most recent call of the public interface returned

vars == <<pc, type, entry, keys, values, hasher, reordered_vals, reordered_keys,
          idx, writeLog, map, wire, decoded, result>>

NoWire == [form |-> "none"]
NoDecode == [done |-> FALSE]
NoResult == [op |-> "none"]

Init ==
    /\ pc = "idle"
    /\ type = "none"
    /\ entry = "none"
    /\ keys = <<>>
    /\ values = <<>>
    /\ hasher = NoFunction
    /\ reordered_vals = Unallocated
    /\ reordered_keys = Unallocated
    /\ idx = 0
    /\ writeLog = <<>>
    /\ map = NoMap
    /\ wire = NoWire
    /\ decoded = NoDecode
    /\ result = NoResult

\* ------------------------------------------------------------ construction
Entries ==
    {<<"PerfectMap", "new">>, <<"PerfectMap", "new_preserve_keys">>,
     <<"PerfectMap", "from_map">>, <<"PerfectMap", "from_map_invert">>,
     <<"KeylessPerfectMap", "new">>, <<"KeylessPerfectMap", "from_map">>,
     <<"KeylessPerfectMap", "from_map_invert">>}

\* from_map unzips a HashMap<K, U>: its keys are pairwise distinct, in any
\* order.  from_map_invert unzips a HashMap<U, KEY>: the values are the
\* pairwise distinct ones.  Both hand sequences of one length to new.
Unzipped(e, ks, vs) ==
    CASE e = "from_map" -> Len(ks) = Len(vs) /\ Distinct(ks)
      [] e = "from_map_invert" -> Len(ks) = Len(vs) /\ Distinct(vs)
      [] OTHER -> TRUE

Call(t, e, ks, vs) ==
    /\ pc = "idle"
    /\ <<t, e>> \in Entries
    /\ Unzipped(e, ks, vs)
    /\ pc' = "assert"
    /\ type' = t
    /\ entry' = e
    /\ keys' = ks
    /\ values' = vs
    /\ UNCHANGED <<hasher, reordered_vals, reordered_keys, idx, writeLog, map,
                   wire, decoded, result>>

\* assert!(keys.len() == values.len());
\* (faulty variant: the assertion is missing)
NoLenPrecondition(ks, vs) == TRUE
LenPrecondition(ks, vs) == Len(ks) = Len(vs)

AssertLen ==
    /\ pc = "assert"
    /\ pc' = IF LenPrecondition(keys, values) THEN "hash" ELSE "panicked"
    /\ UNCHANGED <<type, entry, keys, values, hasher, reordered_vals,
                   reordered_keys, idx, writeLog, map, wire, decoded, result>>

\* let hasher = GOFunction::from_slice_with_conf(&keys, ..);
BuildHasher ==
    /\ pc = "hash"
    /\ \E h \in Hashers(keys) : hasher' = h
    /\ pc' = "alloc"
    /\ UNCHANGED <<type, entry, keys, values, reordered_vals, reordered_keys,
                   idx, writeLog, map, wire, decoded, result>>

\* The primitive may also give up on a slice that holds one key twice.
BuildHasherPanics ==
    /\ pc = "hash"
    /\ ~Distinct(keys)
    /\ pc' = "panicked"
    /\ UNCHANGED <<type, entry, keys, values, hasher, reordered_vals,
                   reordered_keys, idx, writeLog, map, wire, decoded, result>>

PreservesKeys == type = "PerfectMap" /\ entry = "new_preserve_keys"

\* let map_len = values.len(); Vec::with_capacity(map_len)
Alloc ==
    /\ pc = "alloc"
    /\ reordered_vals' = WithCapacity(Len(values))
    /\ reordered_keys' = IF PreservesKeys THEN WithCapacity(Len(values))
                                          ELSE Unallocated
    /\ idx' = 0
    /\ pc' = "loop"
    /\ UNCHANGED <<type, entry, keys, values, hasher, writeLog, map, wire,
                   decoded, result>>

\* keys.into_iter().zip(values.into_iter()): the number of pairs it yields.
\* (faulty variant: the last pair is dropped)
ZipLenShort(ks, vs) == IF Min(Len(ks), Len(vs)) = 0 THEN 0 ELSE Min(Len(ks), Len(vs)) - 1
ZipLen(ks, vs) == Min(Len(ks), Len(vs))

\* let new_idx = hasher.get(&k).unwrap() as usize;
NewIdx(h, k) == FunctionGet(h, k)

\* One iteration of the for loop.
LoopStep ==
    /\ pc = "loop"
    /\ idx < ZipLen(keys, values)
    /\ LET k == keys[idx + 1]
           v == values[idx + 1]
           o == NewIdx(hasher, k)
       IN IF o.some /\ InSpare(reordered_vals, o.v)
          THEN /\ reordered_vals' = SpareWrite(reordered_vals, o.v, Into(v))
               /\ reordered_keys' = IF PreservesKeys
                                    THEN SpareWrite(reordered_keys, o.v, k)
                                    ELSE reordered_keys
               /\ writeLog' = Append(writeLog, o.v)
               /\ idx' = idx + 1
               /\ pc' = "loop"
          ELSE /\ pc' = "panicked"
               /\ UNCHANGED <<reordered_vals, reordered_keys, writeLog, idx>>
    /\ UNCHANGED <<type, entry, keys, values, hasher, map, wire, decoded, result>>

\* unsafe { set_len(map_len) }: the first n spare cells become the vector's
\* elements as they are; a cell the pass never wrote stays uninitialized.
SetLenOf(buf, n) == SubSeq(buf.spare, 1, n)

\* keys: Vec::new() in new, reordered_keys in new_preserve_keys, PhantomData
\* in the keyless map.
\* (faulty variant: new keeps the input keys)
KeysFieldKeepsInput(preserve, ks, reordered) == IF preserve THEN reordered ELSE Cells(ks)
KeysField(preserve, ks, reordered) == IF preserve THEN reordered ELSE <<>>

SetLen ==
    /\ pc = "loop"
    /\ idx = ZipLen(keys, values)
    /\ LET map_len == Len(values) IN
       map' = MkMap(type, hasher, SetLenOf(reordered_vals, map_len),
                    KeysField(PreservesKeys, keys, SetLenOf(reordered_keys, map_len)))
    /\ pc' = "built"
    /\ result' = [op |-> entry]
    /\ UNCHANGED <<type, entry, keys, values, hasher, reordered_vals,
                   reordered_keys, idx, writeLog, wire, decoded>>

\* ------------------------------------------------------------------ lookup
Miss == [acc |-> None, res |-> None]

\* PerfectMap::get: self.function.get(key).and_then(|v| self.values.get(v))
\* (variant that compares the query with the retained key of the slot)
PerfectMap_get_comparing(m, q) ==
    LET o == FunctionGet(m.function, q) IN
    IF ~o.some THEN Miss
    ELSE IF o.v < Len(m.keys) /\ m.keys[o.v + 1] # Written(q) THEN Miss
    ELSE VecGet(m.values, o.v)
PerfectMap_get(m, q) ==
    LET o == FunctionGet(m.function, q) IN
    IF o.some THEN VecGet(m.values, o.v) ELSE Miss

\* KeylessPerfectMap::get_unchecked: the same and_then chain.
Keyless_get_unchecked(m, q) ==
    LET o == FunctionGet(m.function, q) IN
    IF o.some THEN VecGet(m.values, o.v) ELSE Miss

\* KeylessPerfectMap::get: match self.function.get(key) { Some(idx) => .., None => None }
Keyless_get(m, q) ==
    LET o == FunctionGet(m.function, q) IN
    CASE o.some -> LET i == o.v IN VecGet(m.values, i)
      [] OTHER -> Miss

Lookup(m, method, q) ==
    CASE m.type = "PerfectMap" -> PerfectMap_get(m, q)
      [] m.type = "KeylessPerfectMap" /\ method = "get" -> Keyless_get(m, q)
      [] OTHER -> Keyless_get_unchecked(m, q)

Methods(m) == IF m.type = "PerfectMap" THEN {"get"} ELSE {"get", "get_unchecked"}

\* The map a lookup target names: the constructed one or the decoded one.
HasTarget(on) ==
    \/ on = "map" /\ map # NoMap
    \/ on = "decoded" /\ decoded.done /\ decoded.ok
Target(on) == IF on = "map" THEN map ELSE decoded.map

Get(on, method, q) ==
    /\ HasTarget(on)
    /\ method \in Methods(Target(on))
    /\ LET r == Lookup(Target(on), method, q) IN
       result' = [op |-> "get", on |-> on, method |-> method, q |-> q,
                  acc |-> r.acc, res |-> r.res]
    /\ UNCHANGED <<pc, type, entry, keys, values, hasher, reordered_vals,
                   reordered_keys, idx, writeLog, map, wire, decoded>>

\* ------------------------------------------------------------------- codec
\* What a field of the record carries: a sequence of values (V, a number
\* type as in the test), of keys (strings) or of bytes, or the unit that
\* PhantomData serializes to.
SeqVal(elem, items) == [t |-> "seq", elem |-> elem, items |-> items]
UnitVal == [t |-> "unit"]
Field(name, val) == [name |-> name, val |-> val]

\* Serializing a Vec reads every element.  A written cell reads as its
\* content.  Reading a cell that was never written is undefined behaviour:
\* it reads as whatever the allocation held (a value a caller passed, or a
\* number no caller passed, 0 standing for those; a key, or a string that is
\* no key at all), or the process aborts (SerializeAborts).
GarbageValues == ValueUniverse \cup {0}
GarbageKeys == KeyUniverse \cup {""}
ReadOutcomes(cells, garbage) ==
    {r \in [1..Len(cells) -> {Written(g) : g \in garbage} \cup KeySet(cells)] :
        \A s \in 1..Len(cells) : r[s].some /\ (cells[s].some => r[s] = cells[s])}
HasUninit(cells) == \E s \in 1..Len(cells) : cells[s] = Uninit

\* impl Serialize for PerfectMap: values, keys, function; m is the map as
\* the serializer read it.
PerfectMap_serialize(m) ==
    <<Field("values", SeqVal("value", m.values)),
      Field("keys", SeqVal("key", m.keys)),
      Field("function", SeqVal("byte", FunctionWrite(m.function)))>>

\* impl Serialize for KeylessPerfectMap: values, keys (PhantomData),
\* function; m is the map as the serializer read it.
Keyless_serialize(m) ==
    <<Field("values", SeqVal("value", m.values)),
      Field("keys", UnitVal),
      Field("function", SeqVal("byte", FunctionWrite(m.function)))>>

\* The three shapes a serde data format gives the record: a map of named
\* fields, a self-describing sequence of the field values, and a packed
\* sequence in which a unit takes no room.
Forms == {"named", "positional", "packed"}

Serialize(form) ==
    /\ pc = "built"
    /\ wire = NoWire
    /\ form \in Forms
    /\ \E rv \in ReadOutcomes(map.values, GarbageValues),
          rk \in ReadOutcomes(map.keys, GarbageKeys) :
          LET m == [map EXCEPT !.values = rv, !.keys = rk] IN
          wire' = [form |-> form, target |-> map.type,
                   fields |-> IF map.type = "PerfectMap" THEN PerfectMap_serialize(m)
                                                         ELSE Keyless_serialize(m)]
    /\ result' = [op |-> "serialize"]
    /\ UNCHANGED <<pc, type, entry, keys, values, hasher, reordered_vals,
                   reordered_keys, idx, writeLog, map, decoded>>

\* serialize_field("keys", &self.keys) on a never-written String: the read
\* of the garbage pointer and length may abort the process.
SerializeAborts ==
    /\ pc = "built"
    /\ wire = NoWire
    /\ HasUninit(map.keys)
    /\ pc' = "aborted"
    /\ result' = [op |-> "serialize"]
    /\ UNCHANGED <<type, entry, keys, values, hasher, reordered_vals,
                   reordered_keys, idx, writeLog, map, wire, decoded>>

NotUnit(f) == f.val.t # "unit"
Elements(w) == IF w.form = "packed" THEN SelectSeq(w.fields, NotUnit) ELSE w.fields

Err(kind, what) == [done |-> TRUE, ok |-> FALSE, err |-> kind, what |-> what]
Ok(m) == [done |-> TRUE, ok |-> TRUE, map |-> m]
InvalidBytes == Err("custom", "invalid bytes")

\* GOFunction::read(..).map_err(..) and the struct literal that follows it.
Finish(t, function_bytes, vals, ks) ==
    LET f == FunctionRead(function_bytes) IN
    IF f.some THEN Ok(MkMap(t, f.v, vals, ks)) ELSE InvalidBytes

\* next_element::<Vec<T>>() / next_value::<Vec<T>>(): whether the carried
\* value deserializes as the Vec the field wants.  An empty sequence is any
\* Vec; numbers are values or bytes alike; strings are keys only.
AllWritten(items) == \A s \in 1..Len(items) : items[s].some
TypeOk(val, want) ==
    /\ val.t = "seq"
    /\ \/ Len(val.items) = 0
       \/ want = "key" /\ val.elem = "key"
       \/ want = "value" /\ val.elem \in {"value", "byte"}
       \/ want = "byte" /\ val.elem = "byte"
       \/ want = "byte" /\ val.elem = "value" /\ AllWritten(val.items)
\* The Vec it deserializes to.
AsVec(val, want) ==
    CASE Len(val.items) = 0 -> <<>>
      [] want = "value" /\ val.elem = "byte" -> Cells(val.items)
      [] want = "byte" /\ val.elem = "value" ->
             [s \in 1..Len(val.items) |-> val.items[s].v]
      [] OTHER -> val.items

\* Vec<V> for values, Vec<K> for keys, Vec<u8> for function.
Want(name) ==
    CASE name = "values" -> "value" [] name = "keys" -> "key" [] OTHER -> "byte"

\* PerfectMapVisitor::visit_seq (lib.rs): values, keys, function.
PerfectMap_visit_seq(el) ==
    IF Len(el) < 1 THEN Err("invalid_length", 0)
    ELSE IF ~TypeOk(el[1].val, "value") THEN Err("invalid_type", 0)
    ELSE IF Len(el) < 2 THEN Err("invalid_length", 1)
    ELSE IF ~TypeOk(el[2].val, "key") THEN Err("invalid_type", 1)
    ELSE IF Len(el) < 3 THEN Err("invalid_length", 2)
    ELSE IF ~TypeOk(el[3].val, "byte") THEN Err("invalid_type", 2)
    ELSE Finish("PerfectMap", AsVec(el[3].val, "byte"), AsVec(el[1].val, "value"),
                AsVec(el[2].val, "key"))

\* PerfectMapVisitor::visit_seq (keyless.rs): values, function.
Keyless_visit_seq(el) ==
    IF Len(el) < 1 THEN Err("invalid_length", 0)
    ELSE IF ~TypeOk(el[1].val, "value") THEN Err("invalid_type", 0)
    ELSE IF Len(el) < 2 THEN Err("invalid_length", 1)
    ELSE IF ~TypeOk(el[2].val, "byte") THEN Err("invalid_type", 1)
    ELSE Finish("KeylessPerfectMap", AsVec(el[2].val, "byte"),
                AsVec(el[1].val, "value"), <<>>)

\* enum Field { Keys, Values, Function } / enum Field { Values, Function }
PerfectMap_Fields == {"values", "keys", "function"}
Keyless_Fields == {"values", "function"}

\* The while-let loop of visit_map: the Option locals after the last field,
\* or the error of the first field that is unknown, repeated or ill-typed.
NoneSeen == [n \in PerfectMap_Fields |-> None]
RECURSIVE VisitMapLoop(_, _, _, _)
VisitMapLoop(known, fields, i, seen) ==
    IF i > Len(fields) THEN [ok |-> TRUE, seen |-> seen]
    ELSE LET f == fields[i] IN
         IF f.name \notin known THEN [ok |-> FALSE, e |-> Err("unknown_field", f.name)]
         ELSE IF seen[f.name].some
              THEN [ok |-> FALSE, e |-> Err("duplicate_field", f.name)]
         ELSE IF ~TypeOk(f.val, Want(f.name))
              THEN [ok |-> FALSE, e |-> Err("invalid_type", f.name)]
         ELSE VisitMapLoop(known, fields, i + 1,
                           [seen EXCEPT ![f.name] = Some(AsVec(f.val, Want(f.name)))])

\* PerfectMapVisitor::visit_map (lib.rs)
PerfectMap_visit_map(fields) ==
    LET l == VisitMapLoop(PerfectMap_Fields, fields, 1, NoneSeen) IN
    IF ~l.ok THEN l.e
    ELSE IF ~l.seen["function"].some THEN Err("missing_field", "function")
    ELSE IF ~l.seen["values"].some THEN Err("missing_field", "values")
    ELSE IF ~l.seen["keys"].some THEN Err("missing_field", "keys")
    ELSE Finish("PerfectMap", l.seen["function"].v, l.seen["values"].v,
                l.seen["keys"].v)

\* PerfectMapVisitor::visit_map (keyless.rs)
Keyless_visit_map(fields) ==
    LET l == VisitMapLoop(Keyless_Fields, fields, 1, NoneSeen) IN
    IF ~l.ok THEN l.e
    ELSE IF ~l.seen["function"].some THEN Err("missing_field", "function")
    ELSE IF ~l.seen["values"].some THEN Err("missing_field", "values")
    ELSE Finish("KeylessPerfectMap", l.seen["function"].v, l.seen["values"].v, <<>>)

\* The elements visit_seq takes from the sequence: three in lib.rs, two in
\* keyless.rs.
Consumed(t) == IF t = "PerfectMap" THEN 3 ELSE 2

\* After visit_seq returned a map, the deserializer of a self-describing
\* sequence requires the sequence to be exhausted; elements left over are an
\* error.  A packed sequence is read as a tuple of FIELDS.len() elements.
EndSeq(w, r) ==
    IF r.ok /\ w.form = "positional" /\ Len(w.fields) > Consumed(w.target)
    THEN Err("trailing", Consumed(w.target))
    ELSE r

\* deserializer.deserialize_struct("PerfectMap", FIELDS, visitor): a named
\* record goes to visit_map, a sequence to visit_seq.
Decode(w) ==
    CASE w.target = "PerfectMap" /\ w.form = "named" -> PerfectMap_visit_map(w.fields)
      [] w.target = "PerfectMap" /\ w.form # "named" ->
             EndSeq(w, PerfectMap_visit_seq(Elements(w)))
      [] w.target # "PerfectMap" /\ w.form = "named" -> Keyless_visit_map(w.fields)
      [] OTHER -> EndSeq(w, Keyless_visit_seq(Elements(w)))

Deserialize ==
    /\ wire # NoWire
    /\ ~decoded.done
    /\ decoded' = Decode(wire)
    /\ result' = [op |-> "deserialize"]
    /\ UNCHANGED <<pc, type, entry, keys, values, hasher, reordered_vals,
                   reordered_keys, idx, writeLog, map, wire>>

\* A record that reaches the deserializer from elsewhere.  The function
\* bytes are the image of a two-slot function or a truncated image; the
\* values sequence may be shorter than that function's range.
SampleFunction ==
    [n |-> 2, slot |-> [k \in KeyUniverse |->
                          CASE k = "a" -> Some(0) [] k = "b" -> Some(1) [] OTHER -> None]]
FieldChoices ==
    {Field("values", SeqVal("value", Cells(<<1>>))),
     Field("values", SeqVal("value", Cells(<<2, 1>>))),
     Field("keys", SeqVal("key", Cells(<<"b", "a">>))), Field("keys", UnitVal),
     Field("function", SeqVal("byte", FunctionWrite(SampleFunction))),
     Field("function", SeqVal("byte", <<2, 0>>)),
     Field("extra", UnitVal)}

Receive(form, t, fields) ==
    /\ pc = "idle"
    /\ form \in {"named", "positional"}
    /\ t \in {"PerfectMap", "KeylessPerfectMap"}
    /\ pc' = "received"
    /\ wire' = [form |-> form, target |-> t, fields |-> fields]
    /\ UNCHANGED <<type, entry, keys, values, hasher, reordered_vals,
                   reordered_keys, idx, writeLog, map, decoded, result>>

\* The arguments a caller may hand to a constructor.
KeySeqs == SeqsUpTo(KeyUniverse, MaxN)
ValueSeqs == SeqsUpTo(ValueUniverse, MaxN)

CallAny ==
    /\ pc = "idle"
    /\ \E e \in Entries, ks \in KeySeqs, vs \in ValueSeqs : Call(e[1], e[2], ks, vs)

\* The records that may arrive from elsewhere.
Records == SeqsUpTo(FieldChoices, MaxFields)

ReceiveAny ==
    /\ pc = "idle"
    /\ \E form \in {"named", "positional"}, t \in {"PerfectMap", "KeylessPerfectMap"},
          fields \in Records : Receive(form, t, fields)

GetAny ==
    \E on \in {"map", "decoded"}, method \in {"get", "get_unchecked"},
       q \in KeyUniverse : Get(on, method, q)

SerializeAny == \E form \in Forms : Serialize(form)

\* Construction, lookups, and decoding of records from elsewhere.
Next ==
    \/ CallAny
    \/ AssertLen
    \/ BuildHasher
    \/ BuildHasherPanics
    \/ Alloc
    \/ LoopStep
    \/ SetLen
    \/ GetAny
    \/ ReceiveAny
    \/ Deserialize

Spec == Init /\ [][Next]_vars

\* Construction, then the map's own record through its own deserializer.
NextCodec ==
    \/ CallAny
    \/ AssertLen
    \/ BuildHasher
    \/ BuildHasherPanics
    \/ Alloc
    \/ LoopStep
    \/ SetLen
    \/ SerializeAny
    \/ SerializeAborts
    \/ Deserialize

SpecCodec == Init /\ [][NextCodec]_vars

\* ----------------------------------------------------------------- helpers
N == Len(keys)
Built == pc = "built"
SlotOf(k) == FunctionGet(hasher, k).v
Permuted == \E i \in 1..Len(keys) : SlotOf(keys[i]) # i - 1
Count(fields, name) == Cardinality({i \in 1..Len(fields) : fields[i].name = name})
FromSerialize == pc = "built" /\ decoded.done

\* ------------------------------------------------------------------ claims

\* C1: a map built from pairwise distinct keys K and aligned values V (the
\* hash function then being a bijection of K onto [0, N)) answers
\* get(K[i]) with Some(V[i]) for every i, in both variants and for
\* get_unchecked too.
C1_RoundTripConstruction ==
    (Built /\ Distinct(keys)) =>
        \A i \in 1..Len(keys) : \A method \in Methods(map) :
            Lookup(map, method, keys[i]).res = Some(Written(values[i]))

C1_Witness ==
    /\ Built /\ Distinct(keys) /\ Len(keys) >= 2 /\ Permuted
    /\ values[1] # values[2]
    /\ result.op = "get" /\ result.on = "map" /\ result.q = keys[2]
    /\ result.res = Some(Written(values[2]))

\* C2: serializing a key-retaining map and deserializing the record
\* succeeds, in every form of the record, and gives a map with the same
\* values buffer, the same keys sequence and the same get for every key of
\* the construction set.
C2_SerdeRoundTrip ==
    /\ pc # "aborted"
    /\ (FromSerialize /\ wire.target = "PerfectMap") =>
          /\ decoded.ok
          /\ decoded.map.values = map.values
          /\ decoded.map.keys = map.keys
          /\ \A k \in KeySet(keys) :
                PerfectMap_get(decoded.map, k).res = PerfectMap_get(map, k).res

\* C3: the record the keyless serializer emits is accepted by the keyless
\* deserializer, named or positional, and the decoded map has the same
\* values buffer and the same get for every key of the construction set.
C3_KeylessRoundTrip ==
    (FromSerialize /\ wire.target = "KeylessPerfectMap") =>
        /\ decoded.ok
        /\ decoded.map.values = map.values
        /\ \A k \in KeySet(keys) :
              Keyless_get(decoded.map, k).res = Keyless_get(map, k).res

\* C4: a constructor called with keys.len() # values.len() stops at the
\* assertion: no hash function is built, no buffer is allocated, no slot is
\* written and no map is returned.
C4_LengthMismatchAborts ==
    (Len(keys) # Len(values)) =>
        /\ pc \in {"assert", "panicked"}
        /\ hasher = NoFunction
        /\ ~reordered_vals.allocated
        /\ ~reordered_keys.allocated
        /\ writeLog = <<>>
        /\ map = NoMap

C4_Witness ==
    /\ pc = "panicked" /\ Len(keys) = 3 /\ Len(values) = 2
    /\ hasher = NoFunction /\ map = NoMap

\* C5: a lookup on any map, constructed or decoded, for any key, reads no
\* index outside the values buffer: it is a miss, or the content of a slot
\* in [0, values.len()).
C5_LookupInBounds ==
    (result.op = "get") =>
        LET m == Target(result.on) IN
        /\ result.acc.some => result.acc.v \in 0..(Len(m.values) - 1)
        /\ \/ result.res = None
           \/ /\ result.acc.some
              /\ result.acc.v \in 0..(Len(m.values) - 1)
              /\ result.res = Some(m.values[result.acc.v + 1])

C5_Witness ==
    /\ result.op = "get" /\ result.on = "decoded"
    /\ FunctionGet(decoded.map.function, result.q).some
    /\ FunctionGet(decoded.map.function, result.q).v >= Len(decoded.map.values)
    /\ result.res = None

\* C6: a named record decodes to a map exactly when values and function
\* occur once each, keys at most once, no other name occurs and the
\* function bytes parse; a failure is a missing-field, duplicate-field,
\* unknown-field or invalid-bytes error that names a fault the record has.
WellTyped(w) ==
    \A i \in 1..Len(w.fields) :
        LET f == w.fields[i] IN
        \/ f.name \notin PerfectMap_Fields
        \/ TypeOk(f.val, Want(f.name))
        \/ f.name = "keys" /\ w.target = "KeylessPerfectMap"
FunctionBytesParse(fields) ==
    \A i \in 1..Len(fields) :
        (fields[i].name = "function" /\ TypeOk(fields[i].val, "byte"))
            => FunctionReadOk(AsVec(fields[i].val, "byte"))
Acceptable(fields) ==
    /\ Count(fields, "values") = 1
    /\ Count(fields, "function") = 1
    /\ Count(fields, "keys") <= 1
    /\ \A i \in 1..Len(fields) : fields[i].name \in PerfectMap_Fields
    /\ FunctionBytesParse(fields)
C6_NamedDecodeContract ==
    (decoded.done /\ wire.form = "named" /\ WellTyped(wire)) =>
        /\ decoded.ok <=> Acceptable(wire.fields)
        /\ ~decoded.ok =>
              CASE decoded.err = "missing_field" ->
                     Count(wire.fields, "values") = 0 \/ Count(wire.fields, "function") = 0
                [] decoded.err = "duplicate_field" ->
                     \E n \in PerfectMap_Fields : Count(wire.fields, n) > 1
                [] decoded.err = "unknown_field" ->
                     \E i \in 1..Len(wire.fields) : wire.fields[i].name \notin PerfectMap_Fields
                [] decoded.err = "custom" -> ~FunctionBytesParse(wire.fields)
                [] OTHER -> FALSE

\* C7: with pairwise distinct keys the pass writes every slot of [0, N)
\* exactly once, N writes in all, nothing reads the buffer before the pass is
\* over, and the returned values buffer has length N.
C7_BijectionWrites ==
    (Distinct(keys) /\ Len(keys) = Len(values)) =>
        /\ Distinct(writeLog)
        /\ pc = "loop" => (Len(writeLog) = idx /\ map = NoMap /\ result.op # "get")
        /\ Built => /\ Len(writeLog) = N
                    /\ KeySet(writeLog) = 0..(N - 1)
                    /\ Len(map.values) = N

C7_Witness ==
    /\ Built /\ Distinct(keys) /\ Len(keys) = 3 /\ Permuted
    /\ Len(writeLog) = 3 /\ Len(map.values) = 3

\* C8: whatever keys the caller supplies, every slot of the returned map
\* was written before the buffer was marked initialized.
C8_AllSlotsWritten ==
    Built =>
        /\ \A s \in 1..Len(map.values) : map.values[s] # Uninit
        /\ \A s \in 1..Len(map.keys) : map.keys[s] # Uninit

\* C9: a lookup never compares keys: on a keyless map get and get_unchecked
\* agree for every key, member or not, and on a key-retaining map get is the
\* same whatever the keys buffer holds.
AltKeys(m) ==
    {<<>>} \cup {[s \in 1..Len(m.values) |-> Written(k)] : k \in KeyUniverse}
IgnoresKeys(m) ==
    /\ m.type = "KeylessPerfectMap" =>
          \A q \in KeyUniverse : Keyless_get(m, q) = Keyless_get_unchecked(m, q)
    /\ m.type = "PerfectMap" =>
          \A q \in KeyUniverse : \A ks \in AltKeys(m) :
              PerfectMap_get([m EXCEPT !.keys = ks], q) = PerfectMap_get(m, q)
C9_LookupIgnoresKeys ==
    \A on \in {"map", "decoded"} : HasTarget(on) => IgnoresKeys(Target(on))

C9_Witness ==
    /\ Built /\ entry = "new_preserve_keys" /\ Len(map.keys) >= 2
    /\ result.op = "get" /\ result.on = "map"
    /\ result.q \notin KeySet(keys)
    /\ result.res.some

\* C10: new_preserve_keys on distinct keys returns keys and values buffers
\* of length N paired slot by slot with the input; new, from_map and
\* from_map_invert return an empty keys sequence.
C10_PreserveKeysPairs ==
    (Built /\ type = "PerfectMap") =>
        /\ (entry = "new_preserve_keys" /\ Distinct(keys)) =>
              /\ Len(map.keys) = N
              /\ Len(map.values) = N
              /\ \A i \in 1..N :
                    /\ map.keys[SlotOf(keys[i]) + 1] = Written(keys[i])
                    /\ map.values[SlotOf(keys[i]) + 1] = Written(values[i])
        /\ entry \in {"new", "from_map", "from_map_invert"} => map.keys = <<>>

C10_Witness ==
    /\ Built /\ type = "PerfectMap" /\ entry = "new_preserve_keys"
    /\ Distinct(keys) /\ Len(keys) = 3 /\ Permuted
    /\ map.keys[SlotOf(keys[1]) + 1] = Written(keys[1])

====
